---------------------------- MODULE Spec2Model ----------------------------
(***************************************************************************)
(* OneBookNav: the permission-scoped content queries, the invitation-code  *)
(* lifecycle and the registration handler, as state machines over the      *)
(* relational store (committed rows) and the requests in flight.           *)
(*                                                                         *)
(* A request handler that only reads is one atomic action that leaves the  *)
(* response in resp.  The registration handler reads (validates) and later *)
(* writes (commits); it is two actions per request, so that requests       *)
(* handled by different workers interleave between the two.                *)
(***************************************************************************)
EXTENDS Integers, Sequences, FiniteSets, TLC

VARIABLES
    users,             \* table user: sequence of rows, id = index
    categories,        \* table category: sequence of rows, id = index
    websites,          \* table website: sequence of rows, id = index
    site_settings,     \* table site_settings: the set of rows
    invitation_codes,  \* table invitation_code: sequence of rows, id = index
    now,               \* datetime.utcnow()
    reg,               \* the registration requests in flight, per worker
    clk,               \* the click requests in flight, per worker
    resp               \* the response of the last read-only request

vars == <<users, categories, websites, site_settings, invitation_codes, now, reg, clk, resp>>

-----------------------------------------------------------------------------
(* Bounds of the model *)

NumCategories == 2
NumWebsites == 2
NumCodes == 1
NumWorkers == 2
MaxTime == 2
MaxPage == 2
MaxPerPage == 2
MaxClicks == 2
MaxChecks == 2
MaxCalls == 2
MaxTreeSize == 4
MaxInt == 12

(* Program constants *)

PerPageCap == 100

-----------------------------------------------------------------------------
(* Optional values: None, or a one-element tuple *)

None == <<>>
Some(v) == <<v>>
Val(o) == o[1]

Min(a, b) == IF a <= b THEN a ELSE b

-----------------------------------------------------------------------------
(* Users and requesters *)

UserRole == {"user", "admin", "superadmin"}

LinkStatus == {"active", "broken", "checking", "unknown"}

\* The default superadmin of init_default_data, one admin and two users.
InitUsers ==
    << [username |-> "admin", email |-> "admin@onebooknav.com",
        role |-> "superadmin", is_active |-> TRUE],
       [username |-> "root2", email |-> "root2@example.com",
        role |-> "admin", is_active |-> TRUE],
       [username |-> "alice", email |-> "alice@example.com",
        role |-> "user", is_active |-> TRUE],
       [username |-> "bob", email |-> "bob@example.com",
        role |-> "user", is_active |-> TRUE] >>

\* A requester is None (no session) or Some(id) of a user row.
Requesters == {None} \cup {Some(u) : u \in DOMAIN users}

\* current_user.is_authenticated: the session's user exists and is active.
is_authenticated(r) == r # None /\ Val(r) \in DOMAIN users /\ users[Val(r)].is_active

\* User.is_admin
is_admin(u) == u.role \in {"admin", "superadmin"}

\* User.is_superadmin
is_superadmin(u) == u.role = "superadmin"

-----------------------------------------------------------------------------
(* Content: categories and websites *)

CategoryIds == DOMAIN categories
WebsiteIds == DOMAIN websites

\* Category.websites: the websites whose category_id is c.
CategoryWebsites(c) == {w \in WebsiteIds : websites[w].category_id = c}

\* Creation order: the row with the larger id was created later.
created_at(w) == w

\* ORDER BY sort_order, created_at DESC
SortsBefore(a, b) ==
    \/ websites[a].sort_order < websites[b].sort_order
    \/ /\ websites[a].sort_order = websites[b].sort_order
       /\ created_at(a) > created_at(b)

RECURSIVE OrderWebsites(_)
OrderWebsites(S) ==
    IF S = {} THEN << >>
    ELSE LET first == CHOOSE a \in S : \A b \in S \ {a} : SortsBefore(a, b)
         IN  <<first>> \o OrderWebsites(S \ {first})

\* ORDER BY sort_order of categories (ties in id order).
CategorySortsBefore(a, b) ==
    \/ categories[a].sort_order < categories[b].sort_order
    \/ /\ categories[a].sort_order = categories[b].sort_order
       /\ a < b

RECURSIVE OrderCategories(_)
OrderCategories(S) ==
    IF S = {} THEN << >>
    ELSE LET first == CHOOSE a \in S : \A b \in S \ {a} : CategorySortsBefore(a, b)
         IN  <<first>> \o OrderCategories(S \ {first})

Range(s) == {s[i] : i \in DOMAIN s}

RECURSIVE OrderById(_)
\* The ids of S in increasing order.
OrderById(S) ==
    IF S = {} THEN << >>
    ELSE LET first == CHOOSE a \in S : \A b \in S : a <= b
         IN  <<first>> \o OrderById(S \ {first})

RECURSIVE Flatten(_)
\* list.extend over a sequence of lists.
Flatten(lists) ==
    IF lists = << >> THEN << >> ELSE Head(lists) \o Flatten(Tail(lists))

\* The response of a read-only request.  Unused fields keep their defaults.
NoResp ==
    [op |-> "none", requester |-> None, id |-> 0, status |-> 0,
     cats |-> << >>, sites |-> << >>, page |-> 0, per_page |-> 0,
     category_id |-> None, tag_id |-> None, search |-> << >>, total |-> 0,
     code |-> "", valid |-> FALSE, n |-> 0, at |-> None, value |-> None,
     link_status |-> "", response_time |-> None, result |-> "", default |-> None,
     row |-> None, args |-> << >>]

\* The response is sent; the next read-only request can be served.
Respond ==
    /\ resp # NoResp
    /\ resp' = NoResp
    /\ UNCHANGED <<users, categories, websites, site_settings, invitation_codes, now, reg, clk>>

ForbiddenNever(r, e) == FALSE

\* The permission check of the single-entity handlers: the entity is refused.
Forbidden(r, e) ==
    ~e.is_public /\ (~is_authenticated(r) \/
                     (e.user_id # Val(r) /\ ~is_admin(users[Val(r)])))

\* The filter of the category list queries (get_categories, index).
CategoryListFilter(r, c) ==
    /\ categories[c].is_visible
    /\ IF is_authenticated(r)
       THEN categories[c].is_public \/ categories[c].user_id = Val(r)
       ELSE categories[c].is_public

\* GET /api/categories
GetCategories(r) ==
    /\ resp = NoResp
    /\ resp' = [NoResp EXCEPT !.op = "get_categories", !.requester = r, !.status = 200,
                  !.cats = OrderCategories({c \in CategoryIds : CategoryListFilter(r, c)})]
    /\ UNCHANGED <<users, categories, websites, site_settings, invitation_codes, now, reg, clk>>

\* GET / : the homepage lists the root categories only.
Index(r) ==
    /\ resp = NoResp
    /\ resp' = [NoResp EXCEPT !.op = "index", !.requester = r, !.status = 200,
                  !.cats = OrderCategories({c \in CategoryIds :
                               CategoryListFilter(r, c) /\ categories[c].parent_id = None}),
                  !.sites = OrderWebsites({w \in WebsiteIds :
                               websites[w].is_active /\ websites[w].is_public})]
    /\ UNCHANGED <<users, categories, websites, site_settings, invitation_codes, now, reg, clk>>

\* Category.to_dict(include_websites=True): every active website of the category.
CategoryToDictWebsites(c) ==
    OrderWebsites({w \in CategoryWebsites(c) : websites[w].is_active})

\* GET /api/categories/<id>
GetCategory(r, id) ==
    /\ resp = NoResp
    /\ resp' =
         IF id \notin CategoryIds
         THEN [NoResp EXCEPT !.op = "get_category", !.requester = r, !.id = id, !.status = 404]
         ELSE IF Forbidden(r, categories[id])
         THEN [NoResp EXCEPT !.op = "get_category", !.requester = r, !.id = id, !.status = 403]
         ELSE [NoResp EXCEPT !.op = "get_category", !.requester = r, !.id = id, !.status = 200,
                 !.sites = CategoryToDictWebsites(id)]
    /\ UNCHANGED <<users, categories, websites, site_settings, invitation_codes, now, reg, clk>>

\* The website list of /category/<id>.
CategoryDetailWebsites(r, c) ==
    LET owner_or_admin ==
            is_authenticated(r) /\
            (categories[c].user_id = Val(r) \/ is_admin(users[Val(r)]))
    IN  OrderWebsites({w \in CategoryWebsites(c) :
            websites[w].is_active /\ (owner_or_admin \/ websites[w].is_public)})

\* GET /category/<id> : a refusal is a redirect (302) with a flash message.
CategoryDetail(r, id) ==
    /\ resp = NoResp
    /\ resp' =
         IF id \notin CategoryIds
         THEN [NoResp EXCEPT !.op = "category_detail", !.requester = r, !.id = id, !.status = 404]
         ELSE IF Forbidden(r, categories[id])
         THEN [NoResp EXCEPT !.op = "category_detail", !.requester = r, !.id = id, !.status = 302]
         ELSE [NoResp EXCEPT !.op = "category_detail", !.requester = r, !.id = id, !.status = 200,
                 !.cats = OrderCategories({c \in CategoryIds :
                              categories[c].parent_id = Some(id) /\ categories[c].is_visible}),
                 !.sites = CategoryDetailWebsites(r, id)]
    /\ UNCHANGED <<users, categories, websites, site_settings, invitation_codes, now, reg, clk>>

\* GET /api/websites/<id>
GetWebsite(r, id) ==
    /\ resp = NoResp
    /\ resp' =
         IF id \notin WebsiteIds
         THEN [NoResp EXCEPT !.op = "get_website", !.requester = r, !.id = id, !.status = 404]
         ELSE IF Forbidden(r, websites[id])
         THEN [NoResp EXCEPT !.op = "get_website", !.requester = r, !.id = id, !.status = 403]
         ELSE [NoResp EXCEPT !.op = "get_website", !.requester = r, !.id = id, !.status = 200,
                 !.sites = <<id>>]
    /\ UNCHANGED <<users, categories, websites, site_settings, invitation_codes, now, reg, clk>>


\* str.contains: t occurs in s as a contiguous run of characters.
Contains(s, t) ==
    \E i \in 1..(Len(s) + 1) :
        i + Len(t) - 1 <= Len(s) /\ SubSeq(s, i, i + Len(t) - 1) = t

\* A nullable text column contains t (NULL contains nothing).
ColumnContains(col, t) == col # None /\ Contains(Val(col), t)

WebsiteListFilterNoActive(r, w) ==
    IF ~is_authenticated(r) THEN websites[w].is_public
    ELSE IF ~is_admin(users[Val(r)])
         THEN websites[w].is_public \/ websites[w].user_id = Val(r)
         ELSE TRUE

\* The permission filter of the website list queries (get_websites, search,
\* tag_detail), on top of is_active.
WebsiteListFilter(r, w) ==
    /\ websites[w].is_active
    /\ IF ~is_authenticated(r) THEN websites[w].is_public
       ELSE IF ~is_admin(users[Val(r)])
            THEN websites[w].is_public \/ websites[w].user_id = Val(r)
            ELSE TRUE

\* The optional filters of get_websites: category_id, tag_id, search.
WebsiteQueryFilter(w, category_id, tag_id, search) ==
    /\ category_id # None => websites[w].category_id = Val(category_id)
    /\ tag_id # None => Val(tag_id) \in websites[w].tags
    /\ search # << >> =>
          \/ Contains(websites[w].title, search)
          \/ ColumnContains(websites[w].description, search)
          \/ ColumnContains(websites[w].keywords, search)

\* Query.paginate(page, per_page, error_out=False): LIMIT per_page OFFSET (page-1)*per_page.
Paginate(ordered, page, per_page) ==
    SubSeq(ordered, (page - 1) * per_page + 1, Min(page * per_page, Len(ordered)))

\* GET /api/websites
GetWebsites(r, page, per_page, category_id, tag_id, search) ==
    LET matched == {w \in WebsiteIds :
                        /\ WebsiteListFilter(r, w)
                        /\ WebsiteQueryFilter(w, category_id, tag_id, search)}
        limit == Min(per_page, PerPageCap)
    IN  /\ resp = NoResp
        /\ resp' = [NoResp EXCEPT !.op = "get_websites", !.requester = r, !.status = 200,
                      !.page = page, !.per_page = limit, !.category_id = category_id,
                      !.tag_id = tag_id, !.search = search,
                      !.total = Cardinality(matched),
                      !.sites = Paginate(OrderWebsites(matched), page, limit)]
        /\ UNCHANGED <<users, categories, websites, site_settings, invitation_codes, now, reg, clk>>

-----------------------------------------------------------------------------
(* Settings: the typed key/value store *)

LowerChar(c) ==
    CASE c = "A" -> "a" [] c = "B" -> "b" [] c = "C" -> "c" [] c = "D" -> "d"
      [] c = "E" -> "e" [] c = "F" -> "f" [] c = "G" -> "g" [] c = "H" -> "h"
      [] c = "I" -> "i" [] c = "J" -> "j" [] c = "K" -> "k" [] c = "L" -> "l"
      [] c = "M" -> "m" [] c = "N" -> "n" [] c = "O" -> "o" [] c = "P" -> "p"
      [] c = "Q" -> "q" [] c = "R" -> "r" [] c = "S" -> "s" [] c = "T" -> "t"
      [] c = "U" -> "u" [] c = "V" -> "v" [] c = "W" -> "w" [] c = "X" -> "x"
      [] c = "Y" -> "y" [] c = "Z" -> "z" [] OTHER -> c

\* str.lower on a string held as its sequence of characters.
Lower(s) == [i \in DOMAIN s |-> LowerChar(s[i])]

TruthyWords == { <<"t", "r", "u", "e">>, <<"1">>, <<"y", "e", "s">>, <<"o", "n">> }

\* The result of a settings call, tagged by its Python type: a decoded value,
\* or the exception the call raised.
BoolValue(b) == [kind |-> "bool", b |-> b, s |-> << >>, n |-> 0]
StrValue(s) == [kind |-> "str", b |-> FALSE, s |-> s, n |-> 0]
NoneValue == [kind |-> "none", b |-> FALSE, s |-> << >>, n |-> 0]
IntValue(n) == [kind |-> "int", b |-> FALSE, s |-> << >>, n |-> n]
EmptyObject == [kind |-> "dict", b |-> FALSE, s |-> << >>, n |-> 0]
EmptyList == [kind |-> "list", b |-> FALSE, s |-> << >>, n |-> 0]
Raised(exception) == [kind |-> exception, b |-> FALSE, s |-> << >>, n |-> 0]

DecimalDigits == <<"0", "1", "2", "3", "4", "5", "6", "7", "8", "9">>

IsDigit(c) == \E d \in DOMAIN DecimalDigits : DecimalDigits[d] = c
DigitValue(c) == (CHOOSE d \in DOMAIN DecimalDigits : DecimalDigits[d] = c) - 1
AllDigits(s) == s # << >> /\ \A i \in DOMAIN s : IsDigit(s[i])

\* The value of a run of decimal digits, read left to right onto acc.
RECURSIVE DigitsValue(_, _)
DigitsValue(s, acc) ==
    IF s = << >> THEN acc ELSE DigitsValue(Tail(s), 10 * acc + DigitValue(Head(s)))

\* Whitespace at the ends of a text is skipped by int() and by json.loads; the
\* whitespace of this model's texts is the blank.
IsSpace(c) == c = " "

RECURSIVE LStrip(_)
LStrip(s) == IF s # << >> /\ IsSpace(Head(s)) THEN LStrip(Tail(s)) ELSE s

RECURSIVE RStrip(_)
RStrip(s) ==
    IF s # << >> /\ IsSpace(s[Len(s)]) THEN RStrip(SubSeq(s, 1, Len(s) - 1)) ELSE s

Strip(s) == RStrip(LStrip(s))

\* int(text): an optional sign and decimal digits between optional blanks, or
\* ValueError.
int(text) ==
    LET t == Strip(text)
        signed == t # << >> /\ Head(t) \in {"+", "-"}
        body == IF signed THEN Tail(t) ELSE t
    IN  IF ~AllDigits(body) THEN Raised("ValueError")
        ELSE IF signed /\ Head(t) = "-" THEN IntValue(0 - DigitsValue(body, 0))
        ELSE IntValue(DigitsValue(body, 0))

\* json.loads(text) on the documents of this model: the literals, integers,
\* strings without escapes, the empty object and the empty array.  Any other
\* text is malformed.
json_loads(text) ==
    LET t == Strip(text)
        negative == t # << >> /\ Head(t) = "-"
        body == IF negative THEN Tail(t) ELSE t
        quoted == Len(t) >= 2 /\ Head(t) = "\"" /\ t[Len(t)] = "\""
        inner == SubSeq(t, 2, Len(t) - 1)
    IN  IF t = <<"t", "r", "u", "e">> THEN BoolValue(TRUE)
        ELSE IF t = <<"f", "a", "l", "s", "e">> THEN BoolValue(FALSE)
        ELSE IF t = <<"n", "u", "l", "l">> THEN NoneValue
        ELSE IF t = <<"{", "}">> THEN EmptyObject
        ELSE IF t = <<"[", "]">> THEN EmptyList
        ELSE IF quoted /\ \A i \in DOMAIN inner : inner[i] \notin {"\"", "\\"}
             THEN StrValue(inner)
        ELSE IF AllDigits(body) /\ (Len(body) = 1 \/ Head(body) # "0")
             THEN IntValue(IF negative THEN 0 - DigitsValue(body, 0)
                           ELSE DigitsValue(body, 0))
        ELSE Raised("JSONDecodeError")

\* The instance get_value without the try/except around json.loads.
DecodeSettingNoFallback(row) ==
    IF row.value = None THEN NoneValue
    ELSE IF row.value_type = "int" THEN int(Val(row.value))
    ELSE IF row.value_type = "bool" THEN BoolValue(Lower(Val(row.value)) \in TruthyWords)
    ELSE IF row.value_type = "json" THEN json_loads(Val(row.value))
    ELSE StrValue(Val(row.value))

\* SiteSettings.get_value (instance): decode the stored text by value_type.
DecodeSetting(row) ==
    IF row.value = None THEN NoneValue
    ELSE IF row.value_type = "int" THEN int(Val(row.value))
    ELSE IF row.value_type = "bool" THEN BoolValue(Lower(Val(row.value)) \in TruthyWords)
    ELSE IF row.value_type = "json"
         THEN LET parsed == json_loads(Val(row.value))
              IN  IF parsed.kind \in {"JSONDecodeError", "TypeError"} THEN EmptyObject
                  ELSE parsed
    ELSE StrValue(Val(row.value))

\* The body of the classmethod get_value(cls, key, default): the row's decoded
\* value, or the default.
get_value_classmethod(key, default) ==
    LET rows == {row \in site_settings : row.key = key}
    IN  IF rows # {} THEN DecodeSetting(CHOOSE row \in rows : TRUE) ELSE default

\* The definitions of the name get_value in the body of class SiteSettings, in
\* source order: the classmethod (cls, key, default) and, further down, the
\* instance method (self).
GetValueDefinitions ==
    << [kind |-> "classmethod", params |-> <<"cls", "key", "default">>],
       [kind |-> "function", params |-> <<"self">>] >>

ClassAttributeFirst(definitions) == definitions[1]

\* A class body is executed top to bottom: a name defined twice is bound to the
\* later definition.
ClassAttribute(definitions) == definitions[Len(definitions)]

\* The call SiteSettings.get_value(key, default) on the class.  A classmethod
\* receives the class as cls; a plain function looked up on the class receives
\* the positional arguments as they are, key as self, and a count of arguments
\* other than that of its parameters is a TypeError.  A str as self has no
\* attribute value.
get_value(key, default) ==
    LET f == ClassAttribute(GetValueDefinitions)
        args == <<key, default>>
    IN  IF f.kind = "classmethod" THEN get_value_classmethod(key, default)
        ELSE IF Len(args) # Len(f.params) THEN Raised("TypeError")
        ELSE Raised("AttributeError")

\* A call SiteSettings.get_value(key, default), by itself.
GetValueCall(key, default) ==
    /\ resp = NoResp
    /\ resp' = [NoResp EXCEPT !.op = "get_value", !.code = key, !.default = Some(default),
                  !.value = Some(get_value(key, default))]
    /\ UNCHANGED <<users, categories, websites, site_settings, invitation_codes, now, reg, clk>>

\* The call setting.get_value() on a stored row: the name resolves to the same
\* class attribute.  A plain function is bound to the row as self; a
\* classmethod would be called with cls alone and miss its key.
instance_get_value(row) ==
    LET f == ClassAttribute(GetValueDefinitions)
    IN  IF f.kind = "function" THEN DecodeSetting(row) ELSE Raised("TypeError")

\* A call setting.get_value() on a stored row, by itself, as get_settings and
\* to_dict make it.
InstanceGetValueCall(row) ==
    /\ resp = NoResp
    /\ row \in site_settings
    /\ resp' = [NoResp EXCEPT !.op = "setting.get_value", !.code = row.key,
                  !.row = Some(row), !.value = Some(instance_get_value(row))]
    /\ UNCHANGED <<users, categories, websites, site_settings, invitation_codes, now, reg, clk>>

\* The decimal numeral of a natural number.
RECURSIVE Numeral(_)
Numeral(n) ==
    IF n < 10 THEN <<DecimalDigits[n + 1]>>
    ELSE Append(Numeral(n \div 10), DecimalDigits[(n % 10) + 1])

SignedNumeral(n) == IF n < 0 THEN <<"-">> \o Numeral(0 - n) ELSE Numeral(n)

\* str(value) of a Python value.
str(v) ==
    CASE v.kind = "bool" -> IF v.b THEN <<"T", "r", "u", "e">> ELSE <<"F", "a", "l", "s", "e">>
      [] v.kind = "str"  -> v.s
      [] v.kind = "none" -> <<"N", "o", "n", "e">>
      [] v.kind = "int"  -> SignedNumeral(v.n)
      [] v.kind = "dict" -> <<"{", "}">>
      [] v.kind = "list" -> <<"[", "]">>

\* json.dumps(value, ensure_ascii=False); the strings of this model need no
\* escapes.
json_dumps(v) ==
    CASE v.kind = "bool" -> IF v.b THEN <<"t", "r", "u", "e">> ELSE <<"f", "a", "l", "s", "e">>
      [] v.kind = "str"  -> <<"\"">> \o v.s \o <<"\"">>
      [] v.kind = "none" -> <<"n", "u", "l", "l">>
      [] v.kind = "int"  -> SignedNumeral(v.n)
      [] v.kind = "dict" -> <<"{", "}">>
      [] v.kind = "list" -> <<"[", "]">>

\* SiteSettings.set_value (instance): serialize by the row's own value_type.
set_value_instance(row, value) ==
    IF row.value_type = "json" THEN [row EXCEPT !.value = Some(json_dumps(value))]
    ELSE [row EXCEPT !.value = Some(str(value))]

\* The body of the classmethod set_value(cls, key, value, value_type): the row
\* of the key, created with value_type when there is none, takes the value.
set_value_classmethod(key, value, value_type) ==
    LET rows == {row \in site_settings : row.key = key}
        setting == IF rows # {} THEN CHOOSE row \in rows : TRUE
                   ELSE [key |-> key, value |-> None, value_type |-> value_type]
    IN  (site_settings \ rows) \cup {set_value_instance(setting, value)}

\* The definitions of the name set_value in the body of class SiteSettings, in
\* source order: the classmethod, whose last three parameters have defaults,
\* and the instance method (self, value).
SetValueDefinitions ==
    << [kind |-> "classmethod",
        params |-> <<"cls", "key", "value", "value_type", "description", "category">>],
       [kind |-> "function", params |-> <<"self", "value">>] >>

\* The call SiteSettings.set_value(*args) on the class, args = (key, value) or
\* (key, value, value_type): what it raises, if anything, and the table after
\* it.  The plain function takes key as self: with three arguments the count
\* is wrong, with two a str has no attribute value_type.
set_value(args) ==
    LET f == ClassAttribute(SetValueDefinitions)
        value_type == IF Len(args) >= 3 THEN args[3] ELSE "string"
    IN  IF f.kind = "classmethod"
        THEN [raised |-> "", settings |-> set_value_classmethod(args[1], args[2], value_type)]
        ELSE IF Len(args) # Len(f.params)
        THEN [raised |-> "TypeError", settings |-> site_settings]
        ELSE [raised |-> "AttributeError", settings |-> site_settings]

\* A call SiteSettings.set_value(key, value[, value_type]), by itself.
SetValueCall(args) ==
    LET called == set_value(args)
    IN  /\ resp = NoResp
        /\ site_settings' = called.settings
        /\ resp' = [NoResp EXCEPT !.op = "set_value", !.code = args[1], !.args = args,
                      !.result = called.raised]
        /\ UNCHANGED <<users, categories, websites, invitation_codes, now, reg, clk>>

\* A call setting.set_value(value) on a stored row, and the commit.
InstanceSetValueCall(row, value) ==
    /\ resp = NoResp
    /\ row \in site_settings
    /\ site_settings' = (site_settings \ {row}) \cup {set_value_instance(row, value)}
    /\ resp' = [NoResp EXCEPT !.op = "setting.set_value", !.code = row.key,
                  !.row = Some(row), !.value = Some(value)]
    /\ UNCHANGED <<users, categories, websites, invitation_codes, now, reg, clk>>

\* Python truthiness of a decoded value.
Truthy(v) ==
    CASE v.kind = "bool" -> v.b
      [] v.kind = "str"  -> v.s # << >>
      [] v.kind = "int"  -> v.n # 0
      [] OTHER           -> FALSE

-----------------------------------------------------------------------------
(* Invitation codes *)

is_valid_strict(ic, t) ==
    IF ic.is_used THEN FALSE
    ELSE IF ic.expires_at # None /\ t >= Val(ic.expires_at) THEN FALSE
    ELSE TRUE

is_valid_ignores_used(ic, t) ==
    IF ic.expires_at # None /\ t > Val(ic.expires_at) THEN FALSE
    ELSE TRUE

\* InvitationCode.is_valid at time t = datetime.utcnow().
is_valid(ic, t) ==
    IF ic.is_used THEN FALSE
    ELSE IF ic.expires_at # None /\ t > Val(ic.expires_at) THEN FALSE
    ELSE TRUE

use_unchecked(ic, user_id, t) ==
    [ok |-> TRUE,
     row |-> [ic EXCEPT !.is_used = TRUE, !.used_at = Some(t), !.used_by_id = user_id]]

\* InvitationCode.use(user) at time t, user_id = user.id: ok = FALSE is the
\* ValueError, and the row is then as it was.
use(ic, user_id, t) ==
    IF ~is_valid(ic, t) THEN [ok |-> FALSE, row |-> ic]
    ELSE [ok |-> TRUE,
          row |-> [ic EXCEPT !.is_used = TRUE, !.used_at = Some(t), !.used_by_id = user_id]]

\* GET /auth/verify-invitation-code?code=...
VerifyInvitationCode(code) ==
    LET found == {i \in DOMAIN invitation_codes : invitation_codes[i].code = code}
    IN  /\ resp = NoResp
        /\ resp' = [NoResp EXCEPT !.op = "verify_invitation_code", !.status = 200,
                      !.code = code,
                      !.valid = /\ code # ""
                                /\ found # {}
                                /\ is_valid(invitation_codes[CHOOSE i \in found : TRUE], now)]
        /\ UNCHANGED <<users, categories, websites, site_settings, invitation_codes, now, reg, clk>>

\* The id of a User object that has not been flushed to the store: register
\* passes one to use(), which it calls before db.session.add(user).
TransientUserId == None

\* A call I.use(u) on the stored code i, by itself, for a user u whose id is
\* user_id: a stored user, or a User object not yet flushed.
UseCall(i, user_id) ==
    LET called == use(invitation_codes[i], user_id, now)
    IN  /\ resp = NoResp
        /\ invitation_codes' = [invitation_codes EXCEPT ![i] = called.row]
        /\ resp' = [NoResp EXCEPT !.op = "use", !.id = i, !.requester = user_id,
                      !.valid = called.ok]
        /\ UNCHANGED <<users, categories, websites, site_settings, now, reg, clk>>

-----------------------------------------------------------------------------
(* The session's flush *)

FlushWholeRow(stored, loaded, modified) == modified

FlushIncrements(stored, loaded, modified) ==
    [f \in DOMAIN stored |->
        IF modified[f] = loaded[f] THEN stored[f]
        ELSE IF f = "click_count" THEN stored[f] + (modified[f] - loaded[f])
        ELSE modified[f]]

\* The UPDATE of a flush: the columns the session changed on its copy are
\* written over the stored row.
Flush(stored, loaded, modified) ==
    [f \in DOMAIN stored |-> IF modified[f] # loaded[f] THEN modified[f] ELSE stored[f]]

-----------------------------------------------------------------------------
(* Registration: POST /auth/register *)

\* A worker with no registration request in hand.
IdleReg ==
    [pc |-> "idle", username |-> "", email |-> "", inv |-> None,
     use_called |-> FALSE, use_ok |-> FALSE, use_at |-> 0, outcome |-> "",
     user_id |-> None]

\* The request has been answered with the given outcome; the form is gone.
Answered(rq, outcome) ==
    [rq EXCEPT !.pc = "done", !.outcome = outcome, !.username = "", !.email = ""]

\* RegistrationForm.validate_username / validate_email: the uniqueness queries.
UsernameTaken(username) == \E u \in DOMAIN users : users[u].username = username
EmailTaken(email) == \E u \in DOMAIN users : users[u].email = email


\* The first half of register: the checks, up to the invitation code's
\* is_valid().  A request that passes holds its session's copy of the code row.
\* An exception of the settings call is answered by the 500 handler.
RegValidate(p, r, username, email, code) ==
    LET found == {i \in DOMAIN invitation_codes : invitation_codes[i].code = code}
        i == CHOOSE i \in found : TRUE
        rq == [IdleReg EXCEPT !.username = username, !.email = email]
        registration_enabled == get_value("registration_enabled", BoolValue(TRUE))
    IN  /\ reg[p].pc = "idle" /\ clk[p].pc = "idle"
        /\ reg' = [reg EXCEPT ![p] =
              IF is_authenticated(r) THEN Answered(IdleReg, "redirect_index")
              ELSE IF registration_enabled.kind \in {"TypeError", "AttributeError"}
                   THEN Answered(IdleReg, "error500")
              ELSE IF ~Truthy(registration_enabled)
                   THEN Answered(IdleReg, "registration_disabled")
              ELSE IF UsernameTaken(username) \/ EmailTaken(email)
                   THEN Answered(rq, "form_invalid")
              ELSE IF code = "" THEN [rq EXCEPT !.pc = "validated"]
              ELSE IF found = {} \/ ~is_valid(invitation_codes[i], now)
                   THEN Answered(rq, "invalid_code")
              ELSE [rq EXCEPT !.pc = "validated",
                              !.inv = Some([id |-> i, row |-> invitation_codes[i]])]]
        /\ UNCHANGED <<users, categories, websites, site_settings, invitation_codes, now, clk, resp>>

\* register from form.validate_on_submit() on, by itself: the form's
\* uniqueness queries and the invitation code's is_valid().  A request that
\* passes holds its session's copy of the code row.
ValidateOnSubmit(p, username, email, code) ==
    LET found == {i \in DOMAIN invitation_codes : invitation_codes[i].code = code}
        i == CHOOSE i \in found : TRUE
        rq == [IdleReg EXCEPT !.username = username, !.email = email]
    IN  /\ reg[p].pc = "idle" /\ clk[p].pc = "idle"
        /\ reg' = [reg EXCEPT ![p] =
              IF UsernameTaken(username) \/ EmailTaken(email)
                   THEN Answered(rq, "form_invalid")
              ELSE IF code = "" THEN [rq EXCEPT !.pc = "validated"]
              ELSE IF found = {} \/ ~is_valid(invitation_codes[i], now)
                   THEN Answered(rq, "invalid_code")
              ELSE [rq EXCEPT !.pc = "validated",
                              !.inv = Some([id |-> i, row |-> invitation_codes[i]])]]
        /\ UNCHANGED <<users, categories, websites, site_settings, invitation_codes, now, clk, resp>>

UniqueViolationNone(username, email) == FALSE

\* unique=True on User.username and User.email: an INSERT of a second row with
\* the username or the email is an IntegrityError.
UniqueViolation(username, email) == UsernameTaken(username) \/ EmailTaken(email)

\* A store that commits each statement by itself, the UPDATE of the code row
\* first: the UPDATE stays when the INSERT of the user fails.
commit_autocommit(flushed_codes, new_user) ==
    IF UniqueViolation(new_user.username, new_user.email)
    THEN [ok |-> FALSE, users |-> users, invitation_codes |-> flushed_codes]
    ELSE [ok |-> TRUE, users |-> Append(users, new_user), invitation_codes |-> flushed_codes]

\* db.session.commit() of register: the INSERT of the user and the UPDATE of
\* the code row in one transaction, which an IntegrityError undoes as a whole.
commit(flushed_codes, new_user) ==
    IF UniqueViolation(new_user.username, new_user.email)
    THEN [ok |-> FALSE, users |-> users, invitation_codes |-> invitation_codes]
    ELSE [ok |-> TRUE, users |-> Append(users, new_user), invitation_codes |-> flushed_codes]

\* The second half of register: the user is constructed, use(user) is called on
\* the session's copy of the code, then add and commit.  A ValueError of use and
\* an IntegrityError of the unique columns end in the 500 handler's rollback.
RegCommit(p) ==
    LET rq == reg[p]
        has_code == rq.inv # None
        i == Val(rq.inv).id
        loaded == Val(rq.inv).row
        used == use(loaded, TransientUserId, now)
        called == [rq EXCEPT !.use_called = has_code, !.use_at = IF has_code THEN now ELSE 0,
                             !.use_ok = has_code /\ used.ok]
        new_user == [username |-> rq.username, email |-> rq.email,
                     role |-> "user", is_active |-> TRUE]
        flushed_codes == IF has_code
                         THEN [invitation_codes EXCEPT
                                  ![i] = Flush(invitation_codes[i], loaded, used.row)]
                         ELSE invitation_codes
        committed == commit(flushed_codes, new_user)
    IN  /\ rq.pc = "validated"
        /\ IF has_code /\ ~used.ok
           THEN /\ reg' = [reg EXCEPT ![p] = Answered(called, "error500")]
                /\ UNCHANGED <<users, invitation_codes>>
           ELSE /\ users' = committed.users
                /\ invitation_codes' = committed.invitation_codes
                /\ reg' = [reg EXCEPT ![p] =
                      IF committed.ok
                      THEN [Answered(called, "registered") EXCEPT
                               !.user_id = Some(Len(users) + 1)]
                      ELSE Answered(called, "error500")]
        /\ UNCHANGED <<categories, websites, site_settings, now, clk, resp>>

\* The worker is free for the next registration request.
RegFinish(p) ==
    /\ reg[p].pc = "done"
    /\ reg' = [reg EXCEPT ![p] = IdleReg]
    /\ UNCHANGED <<users, categories, websites, site_settings, invitation_codes, now, clk, resp>>

-----------------------------------------------------------------------------
(* Clicks and link checks *)

increment_click_unstamped(w, t) == [w EXCEPT !.click_count = @ + 1]

\* Website.increment_click at time t = datetime.utcnow().
increment_click(w, t) ==
    [w EXCEPT !.click_count = @ + 1, !.last_clicked_at = Some(t)]

update_link_status_always_records(w, status, response_time, t) ==
    [w EXCEPT !.link_status = status, !.last_checked_at = Some(t),
              !.check_count = @ + 1, !.response_time = response_time]

\* Website.update_link_status(status, response_time) at time t.
update_link_status(w, status, response_time, t) ==
    [w EXCEPT !.link_status = status,
              !.last_checked_at = Some(t),
              !.check_count = @ + 1,
              !.response_time = IF response_time # None THEN response_time ELSE @]

\* A worker with no click request in hand.
IdleClick ==
    [pc |-> "idle", route |-> "", requester |-> None, id |-> 0, loaded |-> None,
     status |-> 0]

\* click_website, first half (POST /api/websites/<id>/click and
\* GET /website/<id>/click): get_or_404 and the permission check.  A request
\* that passes holds its session's copy of the website row.
ClickLoad(p, r, route, id) ==
    /\ clk[p].pc = "idle" /\ reg[p].pc = "idle"
    /\ id \in WebsiteIds => websites[id].click_count < MaxClicks
    /\ clk' = [clk EXCEPT ![p] =
          IF id \notin WebsiteIds
          THEN [IdleClick EXCEPT !.pc = "done", !.route = route, !.requester = r,
                                 !.id = id, !.status = 404]
          ELSE IF Forbidden(r, websites[id])
          THEN [IdleClick EXCEPT !.pc = "done", !.route = route, !.requester = r,
                                 !.id = id, !.status = 403]
          ELSE [IdleClick EXCEPT !.pc = "loaded", !.route = route, !.requester = r,
                                 !.id = id, !.loaded = Some(websites[id])]]
    /\ UNCHANGED <<users, categories, websites, site_settings, invitation_codes, now, reg, resp>>

\* click_website, second half: increment_click on the session's copy, commit,
\* and the answer (JSON from the API route, a redirect to the url from the page
\* route).  The answered request keeps the copy it had loaded.
ClickCommit(p) ==
    LET id == clk[p].id
        loaded == Val(clk[p].loaded)
        clicked == increment_click(loaded, now)
    IN  /\ clk[p].pc = "loaded"
        /\ websites' = [websites EXCEPT ![id] = Flush(websites[id], loaded, clicked)]
        /\ clk' = [clk EXCEPT ![p] =
              [@ EXCEPT !.pc = "done",
                        !.status = IF clk[p].route = "api" THEN 200 ELSE 302]]
        /\ UNCHANGED <<users, categories, site_settings, invitation_codes, now, reg, resp>>

\* The worker is free for the next click request.
ClickFinish(p) ==
    /\ clk[p].pc = "done"
    /\ clk' = [clk EXCEPT ![p] = IdleClick]
    /\ UNCHANGED <<users, categories, websites, site_settings, invitation_codes, now, reg, resp>>

\* A link check: update_link_status on the stored website w, and commit.
UpdateLinkStatus(w, status, response_time) ==
    /\ resp = NoResp
    /\ websites[w].check_count < MaxChecks
    /\ websites' = [websites EXCEPT ![w] =
          Flush(websites[w], websites[w],
                update_link_status(websites[w], status, response_time, now))]
    /\ resp' = [NoResp EXCEPT !.op = "update_link_status", !.id = w,
                  !.link_status = status, !.response_time = response_time]
    /\ UNCHANGED <<users, categories, site_settings, invitation_codes, now, reg, clk>>

-----------------------------------------------------------------------------
(* The category tree *)

\* The outcome of a call that never returns: its loop or recursion comes back
\* to a category it has already been at, and nothing in the code stops it.
Unbounded == "unbounded"

RECURSIVE WalkParents(_, _, _)
\* The while loop of can_be_parent_of from the given parent on; seen are the
\* categories the loop has been at.
WalkParents(parent, category, seen) ==
    IF parent = None THEN "True"
    ELSE IF Val(parent) = category THEN "False"
    ELSE IF Val(parent) \in seen THEN Unbounded
    ELSE WalkParents(categories[Val(parent)].parent_id, category, seen \cup {Val(parent)})

can_be_parent_of_self_only(self, category) ==
    IF category = self THEN "False" ELSE "True"

can_be_parent_of_parent_only(self, category) ==
    IF category = self THEN "False"
    ELSE IF categories[self].parent_id = Some(category) THEN "False"
    ELSE "True"

\* Category.can_be_parent_of: self.can_be_parent_of(category).
can_be_parent_of(self, category) ==
    IF category = self THEN "False"
    ELSE WalkParents(categories[self].parent_id, category, {})

\* Category.children: the categories whose parent_id is c, in id order.
Children(c) == OrderById({d \in CategoryIds : categories[d].parent_id = Some(c)})

get_all_children_direct(c, active) ==
    [returns |-> TRUE, list |-> Children(c)]

RECURSIVE get_all_children(_, _)
\* Category.get_all_children on category c; active are the categories whose
\* call is on the stack.  A call on a category that is already active repeats
\* the recursion that led to it, without end.
get_all_children(c, active) ==
    IF c \in active THEN [returns |-> FALSE, list |-> << >>]
    ELSE LET kids == Children(c)
             sub == [k \in DOMAIN kids |-> get_all_children(kids[k], active \cup {c})]
         IN  IF \E k \in DOMAIN kids : ~sub[k].returns
             THEN [returns |-> FALSE, list |-> << >>]
             ELSE [returns |-> TRUE,
                   list |-> Flatten([k \in DOMAIN kids |-> <<kids[k]>> \o sub[k].list])]

\* The re-parenting child.parent := parent, done only when the new parent's
\* can_be_parent_of(child) returns True; parent = None makes the child a root.
Reparent(child, parent) ==
    /\ resp = NoResp
    /\ parent # None => can_be_parent_of(Val(parent), child) = "True"
    /\ categories' = [categories EXCEPT ![child].parent_id = parent]
    /\ resp' = [NoResp EXCEPT !.op = "reparent", !.id = child, !.category_id = parent]
    /\ UNCHANGED <<users, websites, site_settings, invitation_codes, now, reg, clk>>

\* A call self.can_be_parent_of(category), by itself.
CanBeParentOfCall(self, category) ==
    /\ resp = NoResp
    /\ resp' = [NoResp EXCEPT !.op = "can_be_parent_of", !.id = self,
                  !.category_id = Some(category),
                  !.result = can_be_parent_of(self, category)]
    /\ UNCHANGED <<users, categories, websites, site_settings, invitation_codes, now, reg, clk>>

\* A call c.get_all_children(), by itself.
GetAllChildrenCall(c) ==
    LET called == get_all_children(c, {})
    IN  /\ resp = NoResp
        /\ resp' = [NoResp EXCEPT !.op = "get_all_children", !.id = c,
                      !.cats = called.list,
                      !.result = IF called.returns THEN "returned" ELSE Unbounded]
        /\ UNCHANGED <<users, categories, websites, site_settings, invitation_codes, now, reg, clk>>

RECURSIVE increment_click_calls(_, _)
\* Sequential calls of increment_click on one website object, at the times ts.
increment_click_calls(w, ts) ==
    IF ts = << >> THEN w
    ELSE increment_click_calls(increment_click(w, Head(ts)), Tail(ts))

\* The times of up to MaxCalls sequential calls from now on, in order.
CallTimes ==
    {ts \in UNION {[1..n -> now..MaxTime] : n \in 1..MaxCalls} :
        \A k \in 1..(Len(ts) - 1) : ts[k] <= ts[k + 1]}

\* Sequential calls of increment_click on the stored website w at the times ts,
\* and commit.
IncrementClickCalls(w, ts) ==
    /\ resp = NoResp
    /\ websites[w].click_count + Len(ts) <= MaxClicks
    /\ websites' = [websites EXCEPT ![w] =
          Flush(websites[w], websites[w], increment_click_calls(websites[w], ts))]
    /\ now' = ts[Len(ts)]
    /\ resp' = [NoResp EXCEPT !.op = "increment_click", !.id = w, !.n = Len(ts),
                  !.at = Some(ts[Len(ts)])]
    /\ UNCHANGED <<users, categories, site_settings, invitation_codes, reg, clk>>

\* Time passes.
Tick ==
    /\ now < MaxTime
    /\ now' = now + 1
    /\ UNCHANGED <<users, categories, websites, site_settings, invitation_codes, reg, clk, resp>>

-----------------------------------------------------------------------------
(* Administration: POST /admin/api/users/<id>/toggle-status *)

admin_required_any_user(r) == is_authenticated(r)

\* admin_required: the view runs for an authenticated requester whose role is
\* admin or superadmin; anyone else is redirected to the index.
admin_required(r) == is_authenticated(r) /\ is_admin(users[Val(r)])

\* toggle_user_status behind login_required and admin_required.
ToggleUserStatus(r, user_id) ==
    LET answer == [NoResp EXCEPT !.op = "toggle_user_status", !.requester = r,
                                 !.id = user_id]
    IN  /\ resp = NoResp
        /\ IF ~is_authenticated(r)
           THEN /\ resp' = [answer EXCEPT !.status = 302, !.result = "login"]
                /\ UNCHANGED users
           ELSE IF ~admin_required(r)
           THEN /\ resp' = [answer EXCEPT !.status = 302, !.result = "index"]
                /\ UNCHANGED users
           ELSE IF user_id \notin DOMAIN users
           THEN /\ resp' = [answer EXCEPT !.status = 404]
                /\ UNCHANGED users
           ELSE /\ users' = [users EXCEPT ![user_id].is_active = ~users[user_id].is_active]
                /\ resp' = [answer EXCEPT !.status = 200,
                                          !.valid = ~users[user_id].is_active]
        /\ UNCHANGED <<categories, websites, site_settings, invitation_codes, now, reg, clk>>

-----------------------------------------------------------------------------
(* Deleting a category *)

\* A delete that leaves Category.websites alone, as a relationship without the
\* delete cascade and a store without foreign key enforcement would.
DeleteWebsitesOfNone(c) == websites

\* cascade='all, delete-orphan' on Category.websites: the unit of work deletes
\* the websites of the deleted category.
DeleteWebsitesOf(c) ==
    [w \in {v \in WebsiteIds : websites[v].category_id # c} |-> websites[w]]

\* Category.children has no delete cascade: the children of the deleted
\* category stay, their parent_id set to NULL.
DeleteAndNullify(c) ==
    [d \in CategoryIds \ {c} |->
        IF categories[d].parent_id = Some(c) THEN [categories[d] EXCEPT !.parent_id = None]
        ELSE categories[d]]

\* db.session.delete(category); db.session.commit() for the category c.
DeleteCategory(c) ==
    /\ resp = NoResp
    /\ c \in CategoryIds
    /\ categories' = DeleteAndNullify(c)
    /\ websites' = DeleteWebsitesOf(c)
    /\ resp' = [NoResp EXCEPT !.op = "delete_category", !.id = c]
    /\ UNCHANGED <<users, site_settings, invitation_codes, now, reg, clk>>

-----------------------------------------------------------------------------
(* Initial content *)

TagIds == {1}

SearchTerms == { << >>, <<"n", "a">> }

\* The owners of the initial content: the default admin and one plain user.
Owners == {1, 3}

\* Columns of a website row that the initial states do not vary.
WebsiteDefaults(w) ==
    [category_id |-> ((w - 1) % NumCategories) + 1,
     sort_order |-> w % 2,
     tags |-> IF w % 2 = 1 THEN {1} ELSE {},
     title |-> IF w % 2 = 1 THEN <<"n", "a", "v">> ELSE <<"b", "o", "o", "k">>,
     description |-> None, keywords |-> None,
     is_featured |-> FALSE, click_count |-> 0, last_clicked_at |-> None,
     link_status |-> "unknown", last_checked_at |-> None, check_count |-> 0,
     response_time |-> None]

WebsiteRow(w, pub, act, owner) ==
    [f \in DOMAIN WebsiteDefaults(w) \cup {"is_public", "is_active", "user_id"} |->
        CASE f = "is_public" -> pub
          [] f = "is_active" -> act
          [] f = "user_id"   -> owner
          [] OTHER           -> WebsiteDefaults(w)[f]]

\* Even categories are children of the category before them.
CategoryRow(c, pub, vis, owner) ==
    [name |-> c, sort_order |-> NumCategories - c, is_visible |-> vis, is_public |-> pub,
     user_id |-> owner, parent_id |-> IF c % 2 = 0 THEN Some(c - 1) ELSE None]

\* The categories of init_default_data: public, visible, owned by the admin.
DefaultCategories == [c \in 1..NumCategories |-> CategoryRow(c, TRUE, TRUE, 1)]

DefaultWebsites == [w \in 1..NumWebsites |-> WebsiteRow(w, TRUE, TRUE, 1)]

AnyCategories ==
    {cs \in [1..NumCategories -> [pub : BOOLEAN, vis : BOOLEAN, owner : Owners]] : TRUE}

AnyWebsites ==
    {ws \in [1..NumWebsites -> [pub : BOOLEAN, act : BOOLEAN, owner : Owners]] : TRUE}

\* The rest of the store while only content is queried.
InitQuiet ==
    /\ users = InitUsers
    /\ site_settings = {}
    /\ invitation_codes = << >>
    /\ now = 0
    /\ reg = [p \in 1..NumWorkers |-> IdleReg]
    /\ clk = [p \in 1..NumWorkers |-> IdleClick]
    /\ resp = NoResp

\* The code strings of the stored invitation codes, and one that is not stored.
CodeNames == <<"AAAA1111", "BBBB2222", "CCCC3333", "DDDD4444">>
UnknownCode == "ZZZZ9999"

\* What a registration form may carry.
FormUsernames == {"carol", "dave"}
FormEmails == {"carol@example.com", "dave@example.com"}
FormCodes == {""} \cup {CodeNames[i] : i \in 1..NumCodes} \cup {UnknownCode}

\* Who submits the form: nobody logged in, or the logged-in default admin.
FormRequesters == {None, Some(1)}

ExpiryChoices == {None} \cup {Some(t) : t \in 1..(MaxTime - 1)}

InvitationRow(i, expires_at) ==
    [code |-> CodeNames[i], is_used |-> FALSE, used_at |-> None, expires_at |-> expires_at,
     creator_id |-> 1, used_by_id |-> None]

\* The registration_enabled row: absent, or of type bool.
RegistrationSetting(text) ==
    [key |-> "registration_enabled", value |-> Some(text), value_type |-> "bool"]

SettingsChoices ==
    { {}, {RegistrationSetting(<<"t", "r", "u", "e">>)},
      {RegistrationSetting(<<"F", "a", "l", "s", "e">>)} }

\* A public website of the default admin and a private one of user 3.
ClickWebsites == << WebsiteRow(1, TRUE, TRUE, 1), WebsiteRow(2, FALSE, TRUE, 3) >>

\* Who clicks: nobody logged in, or user 4, who owns neither website.
ClickRequesters == {None, Some(4)}

\* The default categories, a public and a private website, unused invitation
\* codes with any expiry, and registration enabled, disabled or unset.
Init ==
    /\ users = InitUsers
    /\ categories = DefaultCategories
    /\ websites = ClickWebsites
    /\ site_settings \in SettingsChoices
    /\ \E ex \in [1..NumCodes -> ExpiryChoices] :
          invitation_codes = [i \in 1..NumCodes |-> InvitationRow(i, ex[i])]
    /\ now = 0
    /\ reg = [p \in 1..NumWorkers |-> IdleReg]
    /\ clk = [p \in 1..NumWorkers |-> IdleClick]
    /\ resp = NoResp

Next ==
    \/ \E p \in 1..NumWorkers, r \in FormRequesters, username \in FormUsernames,
          email \in FormEmails, code \in FormCodes :
           RegValidate(p, r, username, email, code)
    \/ \E p \in 1..NumWorkers : RegFinish(p)
    \/ \E p \in 1..NumWorkers, r \in ClickRequesters, route \in {"api", "main"},
          id \in 1..(NumWebsites + 1) : ClickLoad(p, r, route, id)
    \/ \E p \in 1..NumWorkers : ClickCommit(p)
    \/ \E p \in 1..NumWorkers : ClickFinish(p)
    \/ \E status \in {"broken"} : UpdateLinkStatus(1, status, None)
    \/ \E id \in 1..NumWebsites : GetWebsite(None, id)
    \/ Respond

Spec == Init /\ [][Next]_vars

\* An invitation code row that user 3 used at time 0.
UsedInvitationRow(i, expires_at) ==
    [InvitationRow(i, expires_at) EXCEPT
        !.is_used = TRUE, !.used_at = Some(0), !.used_by_id = Some(3)]

\* Invitation codes in any stored state, used or not, with any expiry.
InitUse ==
    /\ users = InitUsers
    /\ categories = DefaultCategories
    /\ websites = DefaultWebsites
    /\ site_settings = {}
    /\ \E ex \in [1..NumCodes -> ExpiryChoices], used \in [1..NumCodes -> BOOLEAN] :
          invitation_codes = [i \in 1..NumCodes |->
              IF used[i] THEN UsedInvitationRow(i, ex[i]) ELSE InvitationRow(i, ex[i])]
    /\ now = 0
    /\ reg = [p \in 1..NumWorkers |-> IdleReg]
    /\ clk = [p \in 1..NumWorkers |-> IdleClick]
    /\ resp = NoResp

\* Calls of use(), the verification and registration requests, as time passes.
NextUse ==
    \/ \E i \in DOMAIN invitation_codes,
          user_id \in {TransientUserId} \cup {Some(u) : u \in {3, 4}} : UseCall(i, user_id)
    \/ \E p \in 1..NumWorkers, r \in FormRequesters, username \in FormUsernames,
          email \in FormEmails, code \in FormCodes :
           RegValidate(p, r, username, email, code)
    \/ \E p \in 1..NumWorkers : RegFinish(p)
    \/ \E code \in FormCodes : VerifyInvitationCode(code)
    \/ Respond
    \/ Tick

SpecUse == InitUse /\ [][NextUse]_vars

\* The registration and verification requests alone.
NextRegister ==
    \/ \E p \in 1..NumWorkers, r \in FormRequesters, username \in FormUsernames,
          email \in FormEmails, code \in FormCodes :
           RegValidate(p, r, username, email, code)
    \/ \E p \in 1..NumWorkers : RegFinish(p)
    \/ \E code \in FormCodes : VerifyInvitationCode(code)
    \/ Respond
    \/ Tick

\* The body of register past the settings call: the form validation and the
\* commit, on two workers, and calls of use() by themselves, as time passes.
NextForm ==
    \/ \E p \in 1..NumWorkers, username \in FormUsernames, email \in FormEmails,
          code \in FormCodes : ValidateOnSubmit(p, username, email, code)
    \/ \E p \in 1..NumWorkers : RegCommit(p)
    \/ \E p \in 1..NumWorkers : RegFinish(p)
    \/ \E i \in DOMAIN invitation_codes : UseCall(i, Some(3))
    \/ Respond
    \/ Tick

SpecForm == Init /\ [][NextForm]_vars

\* Every worker goes on serving registration requests.
SpecRegister ==
    /\ Init
    /\ [][NextRegister]_vars
    /\ \A p \in 1..NumWorkers : WF_vars(NextRegister /\ reg'[p] # reg[p])

\* The store while the website methods are called by themselves.
InitModel ==
    /\ InitQuiet
    /\ categories = DefaultCategories
    /\ websites = ClickWebsites

\* Calls of the methods of website 1 by themselves, as time passes.
NextModel ==
    \/ \E ts \in CallTimes : IncrementClickCalls(1, ts)
    \/ \E status \in LinkStatus, response_time \in {None, Some(1), Some(2)} :
           UpdateLinkStatus(1, status, response_time)
    \/ Respond
    \/ Tick

SpecModel == InitModel /\ [][NextModel]_vars

\* The texts a bool row may hold.
BoolTexts ==
    { <<"t", "r", "u", "e">>, <<"T", "r", "u", "e">>, <<"F", "a", "l", "s", "e">>,
      <<"1">>, <<"0">>, <<"o", "n">> }

SiteNameSetting ==
    [key |-> "site_name", value |-> Some(<<"O", "n", "e">>), value_type |-> "string"]

\* The settings table with registration_enabled unset or set to any of the
\* texts, with and without the site name.
InitSettings ==
    /\ users = InitUsers
    /\ categories = DefaultCategories
    /\ websites = DefaultWebsites
    /\ invitation_codes = << >>
    /\ now = 0
    /\ reg = [p \in 1..NumWorkers |-> IdleReg]
    /\ clk = [p \in 1..NumWorkers |-> IdleClick]
    /\ resp = NoResp
    /\ \E enabled \in {{}} \cup {{RegistrationSetting(text)} : text \in BoolTexts},
          name \in {{}, {SiteNameSetting}} :
          site_settings = enabled \cup name

\* The defaults a caller passes.
SettingDefaults == {BoolValue(TRUE), BoolValue(FALSE), NoneValue, StrValue(<<"x">>)}

NextSettings ==
    \/ \E key \in {"registration_enabled", "site_name", "backup_enabled"},
          default \in SettingDefaults : GetValueCall(key, default)
    \/ Respond

SpecSettings == InitSettings /\ [][NextSettings]_vars

\* The texts a stored value may hold: numerals, words, JSON documents and
\* broken ones.
StoredTexts ==
    { <<"5">>, <<"-", "3">>, <<" ", "7">>, <<"1", "2">>, <<"1">>, <<"0">>,
      <<"a", "b", "c">>, << >>,
      <<"t", "r", "u", "e">>, <<"T", "R", "U", "E">>, <<"Y", "e", "s">>, <<"o", "n">>,
      <<"f", "a", "l", "s", "e">>, <<"n", "u", "l", "l">>,
      <<"{", "}">>, <<"{">>, <<"[", "]">>, <<"\"", "a", "\"">> }

\* value_type is a free string column: the four documented types and another.
ValueTypes == {"string", "int", "bool", "json", "float"}

\* The Python values a caller stores.
PythonValues ==
    { StrValue(<<"a">>), IntValue(5), IntValue(0 - 3), BoolValue(TRUE), BoolValue(FALSE),
      EmptyObject, EmptyList, NoneValue }

TypedSetting(value_type, value) ==
    [key |-> "items_per_page", value |-> value, value_type |-> value_type]

\* The settings table empty, or holding one row of any type and text.
InitTyped ==
    /\ users = InitUsers
    /\ categories = DefaultCategories
    /\ websites = DefaultWebsites
    /\ invitation_codes = << >>
    /\ now = 0
    /\ reg = [p \in 1..NumWorkers |-> IdleReg]
    /\ clk = [p \in 1..NumWorkers |-> IdleClick]
    /\ resp = NoResp
    /\ site_settings \in
          {{}} \cup {{TypedSetting(value_type, value)} :
                        value_type \in ValueTypes,
                        value \in {None} \cup {Some(text) : text \in StoredTexts}}

SettingKeys == {"items_per_page", "site_name"}

\* Calls of the settings methods, on the class and on a stored row.
NextTyped ==
    \/ \E row \in site_settings : InstanceGetValueCall(row)
    \/ \E row \in site_settings, value \in PythonValues : InstanceSetValueCall(row, value)
    \/ \E key \in SettingKeys, value \in PythonValues :
           SetValueCall(<<key, value>>)
    \/ \E key \in SettingKeys, value \in PythonValues, value_type \in ValueTypes :
           SetValueCall(<<key, value, value_type>>)
    \/ \E key \in SettingKeys, default \in SettingDefaults : GetValueCall(key, default)
    \/ Respond

SpecTyped == InitTyped /\ [][NextTyped]_vars

\* A category row with the given parent.
TreeRow(c, parent) == [CategoryRow(c, TRUE, TRUE, 1) EXCEPT !.parent_id = parent]

\* Categories without parents, as init_default_data creates them.
InitTree ==
    /\ InitQuiet
    /\ websites = << >>
    /\ categories = [c \in 1..MaxTreeSize |-> TreeRow(c, None)]

\* Re-parentings, each guarded by can_be_parent_of, and calls of it.
NextTree ==
    \/ \E child \in CategoryIds, parent \in {None} \cup {Some(c) : c \in CategoryIds} :
           Reparent(child, parent)
    \/ \E self \in CategoryIds, category \in CategoryIds : CanBeParentOfCall(self, category)
    \/ Respond

\* The callers go on.
SpecTree == InitTree /\ [][NextTree]_vars /\ WF_vars(NextTree)

\* Any parent column: forests, and parent chains that close on themselves.
InitChildren ==
    /\ InitQuiet
    /\ websites = << >>
    /\ \E parents \in [1..MaxTreeSize -> {None} \cup {Some(c) : c \in 1..MaxTreeSize}] :
          categories = [c \in 1..MaxTreeSize |-> TreeRow(c, parents[c])]

NextChildren ==
    \/ \E c \in CategoryIds : GetAllChildrenCall(c)
    \/ Respond

SpecChildren == InitChildren /\ [][NextChildren]_vars

\* Any visibility and ownership of the categories and websites.
InitContent ==
    /\ InitQuiet
    /\ \E cs \in AnyCategories :
          categories = [c \in 1..NumCategories |->
                           CategoryRow(c, cs[c].pub, cs[c].vis, cs[c].owner)]
    /\ \E ws \in AnyWebsites :
          websites = [w \in 1..NumWebsites |->
                           WebsiteRow(w, ws[w].pub, ws[w].act, ws[w].owner)]

\* Any visibility and ownership of the websites, under the default categories.
InitWebsites ==
    /\ InitQuiet
    /\ categories = DefaultCategories
    /\ \E ws \in AnyWebsites :
          websites = [w \in 1..NumWebsites |->
                           WebsiteRow(w, ws[w].pub, ws[w].act, ws[w].owner)]

\* Who clicks, on either route: nobody logged in, the admin 2, user 3, who owns
\* the private website, and user 4, who owns none.
AllClickRequesters == {None, Some(2), Some(3), Some(4)}

\* Click requests alone, on two workers, for stored and unknown ids.
NextClick ==
    \/ \E p \in 1..NumWorkers, r \in AllClickRequesters, route \in {"api", "main"},
          id \in 1..(NumWebsites + 1) : ClickLoad(p, r, route, id)
    \/ \E p \in 1..NumWorkers : ClickCommit(p)
    \/ \E p \in 1..NumWorkers : ClickFinish(p)

SpecClick == InitModel /\ [][NextClick]_vars

\* The default content and the initial users, all active.
InitAdmin ==
    /\ InitQuiet
    /\ categories = DefaultCategories
    /\ websites = DefaultWebsites

\* Toggle requests by anyone, for stored and unknown user ids.
NextAdmin ==
    \/ \E r \in Requesters, user_id \in 1..(Len(InitUsers) + 1) : ToggleUserStatus(r, user_id)
    \/ Respond

SpecAdmin == InitAdmin /\ [][NextAdmin]_vars

\* Websites of any visibility in any of the default categories.
InitDelete ==
    /\ InitQuiet
    /\ categories = DefaultCategories
    /\ \E ws \in AnyWebsites, cs \in [1..NumWebsites -> 1..NumCategories] :
          websites = [w \in 1..NumWebsites |->
                         [WebsiteRow(w, ws[w].pub, ws[w].act, ws[w].owner)
                             EXCEPT !.category_id = cs[w]]]

\* Deletions of categories, and fetches of websites by anyone.
NextDelete ==
    \/ \E c \in 1..NumCategories : DeleteCategory(c)
    \/ \E r \in Requesters, id \in 1..(NumWebsites + 1) : GetWebsite(r, id)
    \/ Respond

SpecDelete == InitDelete /\ [][NextDelete]_vars

\* The single-entity and category-list requests.
NextContent ==
    \/ \E r \in Requesters : GetCategories(r)
    \/ \E r \in Requesters : Index(r)
    \/ \E r \in Requesters, id \in 1..(NumCategories + 1) : GetCategory(r, id)
    \/ \E r \in Requesters, id \in 1..(NumCategories + 1) : CategoryDetail(r, id)
    \/ \E r \in Requesters, id \in 1..(NumWebsites + 1) : GetWebsite(r, id)
    \/ Respond

SpecContent == InitContent /\ [][NextContent]_vars

\* The website list requests.
NextWebsites ==
    \/ \E r \in Requesters, page \in 1..MaxPage, per_page \in 1..MaxPerPage,
          category_id \in {None} \cup {Some(c) : c \in 1..NumCategories},
          tag_id \in {None} \cup {Some(t) : t \in TagIds},
          search \in SearchTerms :
           GetWebsites(r, page, per_page, category_id, tag_id, search)
    \/ Respond

SpecWebsites == InitWebsites /\ [][NextWebsites]_vars


-----------------------------------------------------------------------------
(* The uniform visibility rule of the specification, stated on its own *)

IsOwner(r, e) == is_authenticated(r) /\ e.user_id = Val(r)
IsAdminRequester(r) == is_authenticated(r) /\ users[Val(r)].role \in {"admin", "superadmin"}

\* A category is visible iff it is public, or the requester owns it or is an admin.
MaySeeCategory(r, c) ==
    categories[c].is_public \/ IsOwner(r, categories[c]) \/ IsAdminRequester(r)

\* A website: anonymous sees public and active; a plain user additionally
\* their own, whatever its flags; an admin sees every website.
MaySeeWebsite(r, w) ==
    IF IsAdminRequester(r) THEN TRUE
    ELSE (websites[w].is_public /\ websites[w].is_active) \/ IsOwner(r, websites[w])

\* The same rule on the active websites only.
MaySeeActiveWebsite(r, w) ==
    /\ websites[w].is_active
    /\ websites[w].is_public \/ IsOwner(r, websites[w]) \/ IsAdminRequester(r)

-----------------------------------------------------------------------------
(* Claims on the content queries *)

\* C1: for every requester U and category C, GET /api/categories lists C iff
\* C.is_public or C.user_id = U.id or U.is_admin().  Stated here on the
\* categories with is_visible = true only (the list never shows a hidden one).
C1_CategoryListedIffRule ==
    resp.op = "get_categories" =>
        \A c \in CategoryIds :
            categories[c].is_visible =>
                (c \in Range(resp.cats) <=> MaySeeCategory(resp.requester, c))

C2_Expected(rq) ==
    {w \in WebsiteIds :
        /\ MaySeeActiveWebsite(rq.requester, w)
        /\ WebsiteQueryFilter(w, rq.category_id, rq.tag_id, rq.search)}

C3_AnonymousFetchOnlyPublicActive ==
    (resp.op = "get_website" /\ resp.requester = None /\ resp.sites # << >>)
    => \A w \in Range(resp.sites) : websites[w].is_public /\ websites[w].is_active

\* C4: the website list of GET /api/categories/<id> and of /category/<id> shows
\* a non-admin requester no private website they do not own, and shows a
\* requester every active website they own in that category.
C4_CategoryWebsitesByRule ==
    (resp.op \in {"get_category", "category_detail"} /\ resp.status = 200)
    => /\ ~IsAdminRequester(resp.requester) =>
             \A w \in Range(resp.sites) :
                 websites[w].is_public \/ IsOwner(resp.requester, websites[w])
       /\ \A w \in CategoryWebsites(resp.id) :
             (websites[w].is_active /\ IsOwner(resp.requester, websites[w]))
                 => w \in Range(resp.sites)

\* C5: a single-entity fetch of a nonexistent id is answered 404; of an existing
\* entity the requester may not see 403 (the page /category/<id>: a redirect),
\* never 404; of an existing entity the requester may see, its data (200).
C5_NotFoundForbiddenOrData ==
    /\ resp.op \in {"get_category", "category_detail"} =>
          IF resp.id \notin CategoryIds THEN resp.status = 404
          ELSE IF MaySeeCategory(resp.requester, resp.id) THEN resp.status = 200
          ELSE resp.status = (IF resp.op = "get_category" THEN 403 ELSE 302)
    /\ resp.op = "get_website" =>
          IF resp.id \notin WebsiteIds THEN resp.status = 404
          ELSE IF MaySeeWebsite(resp.requester, resp.id) THEN resp.status = 200
          ELSE resp.status = 403


-----------------------------------------------------------------------------
(* Claims on the invitation codes and the registration *)

Workers == 1..NumWorkers

\* A step that is the call I.use(u) on code i.
IsUseCall(i) == resp = NoResp /\ resp'.op = "use" /\ resp'.id = i

\* C6 as claimed: use succeeds iff is_used is false and (expires_at is None or
\* now < expires_at); a use at the instant now = expires_at fails.
C6_UseIffBeforeExpiry ==
    [][\A i \in DOMAIN invitation_codes :
          IsUseCall(i) =>
              (resp'.valid <=>
                  /\ ~invitation_codes[i].is_used
                  /\ \/ invitation_codes[i].expires_at = None
                     \/ now < Val(invitation_codes[i].expires_at))]_vars

\* C6 amended: use succeeds iff is_used is false and (expires_at is None or
\* now <= expires_at); a use at the instant now = expires_at still succeeds.
C6_UseIffNotAfterExpiry ==
    [][\A i \in DOMAIN invitation_codes :
          IsUseCall(i) =>
              (resp'.valid <=>
                  /\ ~invitation_codes[i].is_used
                  /\ \/ invitation_codes[i].expires_at = None
                     \/ now <= Val(invitation_codes[i].expires_at))]_vars

\* C6 witness: a use at the very instant of expiry has succeeded.
C6_Witness ==
    /\ resp.op = "use" /\ resp.valid
    /\ invitation_codes[resp.id].is_used
    /\ invitation_codes[resp.id].used_at = invitation_codes[resp.id].expires_at
    /\ invitation_codes[resp.id].used_by_id = resp.requester

\* C7: the used state is terminal: once a use() has succeeded (the stored code
\* is used), the code stays used in every later state under use, verify,
\* register and the passing of time, and no later call of use() on it succeeds.
C7_UsedIsTerminal ==
    [][\A i \in DOMAIN invitation_codes :
          invitation_codes[i].is_used =>
              /\ invitation_codes'[i].is_used
              /\ IsUseCall(i) => ~resp'.valid]_vars

\* C7 witness: a code that a use() of this run marked used (at a time after the
\* start) has refused a later use() and is as the first use left it.
C7_Witness ==
    /\ resp.op = "use" /\ ~resp.valid /\ resp.requester = Some(4)
    /\ invitation_codes[resp.id].is_used
    /\ invitation_codes[resp.id].used_by_id = Some(3)
    /\ invitation_codes[resp.id].used_at = Some(1)
    /\ now > 1

\* Code i is expired: unused, and the clock has passed its expires_at.
Expired(i) ==
    /\ ~invitation_codes[i].is_used
    /\ invitation_codes[i].expires_at # None
    /\ now > Val(invitation_codes[i].expires_at)

\* C8: the expired state is terminal: once the clock has passed expires_at of an
\* unused code, the code stays expired and unused, is_valid() stays false, and no
\* call of use() on it succeeds.
C8_ExpiredIsTerminal ==
    [][\A i \in DOMAIN invitation_codes :
          Expired(i) =>
              /\ Expired(i)'
              /\ ~(invitation_codes'[i].expires_at = None
                   \/ now' <= Val(invitation_codes'[i].expires_at))
              /\ IsUseCall(i) => ~resp'.valid]_vars

\* C8 witness: use() was called on an expired code and was refused; the code is
\* still expired and unused.
C8_Witness ==
    /\ resp.op = "use" /\ ~resp.valid
    /\ Expired(resp.id)
    /\ invitation_codes[resp.id].used_at = None

\* C9: a successful use records the consumer: the code has is_used = true,
\* used_at set and used_by_id = the id of the user it was used for; so a used
\* code always names an existing user as its consumer.
C9_UseRecordsConsumer ==
    /\ (resp.op = "use" /\ resp.valid) =>
          LET ic == invitation_codes[resp.id]
          IN  ic.is_used /\ ic.used_at # None /\ ic.used_by_id # None
    /\ \A i \in DOMAIN invitation_codes :
          invitation_codes[i].is_used =>
              /\ invitation_codes[i].used_by_id # None
              /\ Val(invitation_codes[i].used_by_id) \in DOMAIN users

\* Worker p's request has registered a user with invitation code i.
Admitted(p, i) ==
    reg[p].outcome = "registered" /\ reg[p].inv # None /\ Val(reg[p].inv).id = i

\* One invitation code has admitted two different users.
TwoAdmitted ==
    \E p, q \in Workers, i \in DOMAIN invitation_codes :
        /\ p # q
        /\ Admitted(p, i) /\ Admitted(q, i)
        /\ reg[p].user_id # reg[q].user_id

\* C10: registration requests that the workers serve concurrently with the same
\* unused invitation code get to the state where both have passed the validity
\* check and both have registered: one code has admitted two users.
C10_RaceAdmitsTwo == <>TwoAdmitted

-----------------------------------------------------------------------------
(* Claims on the clicks and the link checks *)

\* Worker p's click request has committed its increment.
Clicked(p) == clk[p].pc = "done" /\ clk[p].status \in {200, 302}

\* C11: concurrent clicks are last-write-wins: the commit of a click request
\* stores the click_count the request had read plus one, whatever has been
\* committed since it read; two requests that read the same count leave the
\* count one higher, not two.
C11_LastWriteWins ==
    [][\A p \in Workers :
          (clk[p].pc = "loaded" /\ clk'[p].pc = "done") =>
              websites'[clk[p].id].click_count = Val(clk[p].loaded).click_count + 1]_vars

\* C11 witness: two requests that read the same click_count of one website
\* have both committed, and the count is one higher than they read.
C11_Witness ==
    \E p, q \in Workers :
        /\ p # q /\ Clicked(p) /\ Clicked(q) /\ clk[p].id = clk[q].id
        /\ Val(clk[p].loaded).click_count = Val(clk[q].loaded).click_count
        /\ websites[clk[p].id].click_count = Val(clk[p].loaded).click_count + 1

\* A step that is n sequential calls of increment_click on website w.
IsIncrementClickCalls(w) == resp = NoResp /\ resp'.op = "increment_click" /\ resp'.id = w

\* C12: n sequential calls of increment_click increase click_count by exactly
\* n, and last_clicked_at is then the time of the last of the calls.
C12_SequentialClicksCount ==
    [][\A w \in DOMAIN websites :
          IsIncrementClickCalls(w) =>
              /\ websites'[w].click_count = websites[w].click_count + resp'.n
              /\ websites'[w].last_clicked_at = resp'.at
              /\ resp'.at = Some(now')]_vars

\* C12 witness: two sequential calls, the second later than the start, took the
\* count from 0 to 2.
C12_Witness ==
    /\ resp.op = "increment_click" /\ resp.n = 2
    /\ websites[resp.id].click_count = 2
    /\ websites[resp.id].last_clicked_at = Some(now) /\ now > 0

\* C13: click_count of every website never decreases.
C13_ClickCountMonotone ==
    [][\A w \in DOMAIN websites :
          websites'[w].click_count >= websites[w].click_count]_vars

\* The columns a link check writes.
LinkColumns(w) == <<w.link_status, w.last_checked_at, w.check_count>>

\* A step that is the call update_link_status on website w.
IsUpdateLinkStatus(w) ==
    resp = NoResp /\ resp'.op = "update_link_status" /\ resp'.id = w

\* C14: link_status, last_checked_at and check_count of a website change only
\* in a step that is update_link_status on that website.
C14_LinkStatusOnlyByCheck ==
    [][\A w \in DOMAIN websites :
          LinkColumns(websites'[w]) # LinkColumns(websites[w]) => IsUpdateLinkStatus(w)]_vars

\* C14 witness: a click request loaded the website before a link check and
\* committed after it; the stored link columns are those of the check.
C14_Witness ==
    \E p \in Workers :
        /\ Clicked(p)
        /\ Val(clk[p].loaded).link_status = "unknown"
        /\ websites[clk[p].id].link_status = "broken"
        /\ websites[clk[p].id].check_count = 1
        /\ websites[clk[p].id].click_count = Val(clk[p].loaded).click_count + 1

\* C15: update_link_status(status, response_time) sets link_status to the given
\* status, adds 1 to check_count, stamps last_checked_at, sets response_time
\* only when one is passed, and leaves every other column as it was.
C15_UpdateLinkStatusContract ==
    [][\A w \in DOMAIN websites :
          IsUpdateLinkStatus(w) =>
              websites'[w] =
                  [websites[w] EXCEPT
                      !.link_status = resp'.link_status,
                      !.check_count = websites[w].check_count + 1,
                      !.last_checked_at = Some(now),
                      !.response_time = IF resp'.response_time = None
                                        THEN websites[w].response_time
                                        ELSE resp'.response_time]]_vars

\* C15 witness: a second check, passed no response time, has set the status
\* back to unknown and kept the response time of the first.
C15_Witness ==
    /\ resp.op = "update_link_status" /\ resp.response_time = None
    /\ resp.link_status = "unknown"
    /\ websites[resp.id].link_status = "unknown"
    /\ websites[resp.id].check_count = 2
    /\ websites[resp.id].response_time = Some(2)
    /\ websites[resp.id].last_checked_at = Some(now) /\ now > 0

-----------------------------------------------------------------------------
(* Claims on the category tree *)

RECURSIVE ReachUp(_, _, _)
\* The categories reached from the set S by up to k parent steps, in table cats.
ReachUp(cats, S, k) ==
    IF k = 0 THEN S
    ELSE ReachUp(cats,
                 S \cup {Val(cats[x].parent_id) : x \in {y \in S : cats[y].parent_id # None}},
                 k - 1)

\* The ancestors of c in table cats: its parent, the parent's parent, ...
AncestorsIn(cats, c) ==
    IF cats[c].parent_id = None THEN {}
    ELSE ReachUp(cats, {Val(cats[c].parent_id)}, Len(cats))

Ancestors(c) == AncestorsIn(categories, c)

Descendants(c) == {d \in CategoryIds : c \in Ancestors(d)}

\* No category of table cats is its own ancestor.
AcyclicIn(cats) == \A c \in DOMAIN cats : c \notin AncestorsIn(cats, c)

\* C16: self.can_be_parent_of(candidate) returns False when candidate is self,
\* False when candidate is among the ancestors of self, and True for every
\* other candidate.
C16_CanBeParentOf ==
    resp.op = "can_be_parent_of" =>
        LET self == resp.id
            candidate == Val(resp.category_id)
        IN  resp.result = IF candidate = self \/ candidate \in Ancestors(self)
                          THEN "False" ELSE "True"

\* C16 witness: a candidate that is an ancestor of self but not its parent was
\* refused.
C16_Witness ==
    /\ resp.op = "can_be_parent_of" /\ resp.result = "False"
    /\ Val(resp.category_id) \in Ancestors(resp.id)
    /\ categories[resp.id].parent_id # resp.category_id

\* C17: the parent chain stays acyclic under re-parentings that each pass
\* can_be_parent_of: no category is its own ancestor.
C17_ParentChainAcyclic == AcyclicIn(categories)

\* C17 witness: re-parentings have built a chain of four categories.
C17_Witness ==
    /\ resp.op = "reparent"
    /\ \E c \in CategoryIds : Cardinality(Ancestors(c)) = MaxTreeSize - 1

\* C18 as claimed: re-parentings that each pass can_be_parent_of get to a parent
\* chain with a cycle.
C18_GuardedReparentMakesCycle == <>(~AcyclicIn(categories))

\* C18 amended: walking up from self finds candidate exactly when self is one of
\* candidate's descendants, so the check is exact: self.can_be_parent_of(candidate)
\* is True if and only if candidate.parent := self leaves the chain acyclic.
C18_GuardIsExact ==
    \A self \in CategoryIds, candidate \in CategoryIds :
        can_be_parent_of(self, candidate) = "True"
            <=> AcyclicIn([categories EXCEPT ![candidate].parent_id = Some(self)])

\* C18 witness: self lies below one of candidate's descendants, and the attempt
\* to put candidate under self does not pass the check.
C18_Witness ==
    \E self \in CategoryIds, candidate \in CategoryIds :
        /\ self \in Descendants(candidate)
        /\ Val(categories[self].parent_id) \in Descendants(candidate)
        /\ can_be_parent_of(self, candidate) = "False"
        /\ resp.op = "reparent" /\ resp.id = self

\* The elements of list from position i + 1 to position i + n.
Slice(list, i, n) == {list[k] : k \in {j \in DOMAIN list : i < j /\ j <= i + n}}

\* C19: off a parent cycle get_all_children returns the strict descendants of
\* the category, each once, in pre-order (the descendants of an element follow
\* it directly); on a parent cycle it does not return.
C19_GetAllChildren ==
    resp.op = "get_all_children" =>
        LET c == resp.id
            list == resp.cats
        IN  IF c \in Ancestors(c) THEN resp.result = Unbounded
            ELSE /\ resp.result = "returned"
                 /\ Range(list) = Descendants(c)
                 /\ Len(list) = Cardinality(Descendants(c))
                 /\ \A i \in DOMAIN list :
                       Slice(list, i, Cardinality(Descendants(list[i]))) = Descendants(list[i])

\* C19 witness: the call returned a child, that child's child, and then a
\* second child.
C19_Witness ==
    /\ resp.op = "get_all_children" /\ resp.result = "returned"
    /\ Len(resp.cats) = 3
    /\ categories[resp.cats[1]].parent_id = Some(resp.id)
    /\ categories[resp.cats[2]].parent_id = Some(resp.cats[1])
    /\ categories[resp.cats[3]].parent_id = Some(resp.id)

\* A click request of requester r for website id, received by worker p.
ClickReceived(p, r, id) ==
    clk[p].pc = "idle" /\ clk'[p].pc # "idle" /\ clk'[p].requester = r /\ clk'[p].id = id

\* The website is private and the requester is neither its owner nor an admin.
MayNotClick(r, id) ==
    ~websites[id].is_public /\ ~IsOwner(r, websites[id]) /\ ~IsAdminRequester(r)

\* What the three cases of C28 share: a request the requester may not make is
\* answered 403, one for an unknown id 404, both changing no website; any
\* other request goes on to the increment.
ClickRefusals ==
    \A p \in Workers, r \in AllClickRequesters, id \in 1..(NumWebsites + 1) :
        ClickReceived(p, r, id) =>
            /\ websites' = websites
            /\ id \notin WebsiteIds => (clk'[p].pc = "done" /\ clk'[p].status = 404)
            /\ (id \in WebsiteIds /\ MayNotClick(r, id))
                  => (clk'[p].pc = "done" /\ clk'[p].status = 403)
            /\ (id \in WebsiteIds /\ ~MayNotClick(r, id)) => clk'[p].pc = "loaded"

-----------------------------------------------------------------------------
(* Claims on the settings *)

\* C20: SiteSettings.get_value(key, default) returns the default exactly when
\* no row has the key, and otherwise the stored value decoded by its
\* value_type; for registration_enabled with default True that is True when
\* unset and the stored decoded boolean when set.
C20_GetValueDefaultOrDecoded ==
    resp.op = "get_value" =>
        LET rows == {row \in site_settings : row.key = resp.code}
        IN  resp.value =
                IF rows = {} THEN resp.default
                ELSE Some(DecodeSetting(CHOOSE row \in rows : TRUE))

\* The spellings of the integer n that int() reads: the numeral, and for a
\* natural number the numeral after a plus sign.
Spellings(n) ==
    {SignedNumeral(n)} \cup (IF n >= 0 THEN {<<"+">> \o Numeral(n)} ELSE {})

\* The well-formed JSON documents among the texts of the model, each with the
\* value it denotes.
JsonDocuments ==
    { [text |-> <<"5">>, value |-> IntValue(5)],
      [text |-> <<"-", "3">>, value |-> IntValue(0 - 3)],
      [text |-> <<" ", "7">>, value |-> IntValue(7)],
      [text |-> <<"1", "2">>, value |-> IntValue(12)],
      [text |-> <<"1">>, value |-> IntValue(1)],
      [text |-> <<"0">>, value |-> IntValue(0)],
      [text |-> <<"t", "r", "u", "e">>, value |-> BoolValue(TRUE)],
      [text |-> <<"f", "a", "l", "s", "e">>, value |-> BoolValue(FALSE)],
      [text |-> <<"n", "u", "l", "l">>, value |-> NoneValue],
      [text |-> <<"{", "}">>, value |-> EmptyObject],
      [text |-> <<"[", "]">>, value |-> EmptyList],
      [text |-> <<"\"", "a", "\"">>, value |-> StrValue(<<"a">>)] }

\* C21: setting.get_value() on a row holding a string decodes it by the row's
\* value_type: int gives the integer the text spells (ValueError when it
\* spells none), bool gives whether the lower-cased text is one of true, 1,
\* yes, on, json gives the value of a well-formed document and the empty
\* object for any other text, never an error, and any other type gives the
\* text itself.
C21_DecodeFollowsValueType ==
    (resp.op = "setting.get_value" /\ Val(resp.row).value # None) =>
        LET row == Val(resp.row)
            text == Val(row.value)
            got == Val(resp.value)
            ints == {n \in (0 - MaxInt)..MaxInt : Strip(text) \in Spellings(n)}
            docs == {d \in JsonDocuments : d.text = text}
        IN  CASE row.value_type = "int" ->
                    got = IF ints # {} THEN IntValue(CHOOSE n \in ints : TRUE)
                          ELSE Raised("ValueError")
              [] row.value_type = "bool" ->
                    got = BoolValue(\E word \in TruthyWords :
                                       /\ Len(word) = Len(text)
                                       /\ \A i \in DOMAIN word : LowerChar(text[i]) = word[i])
              [] row.value_type = "json" ->
                    got = IF docs # {} THEN (CHOOSE d \in docs : TRUE).value
                          ELSE EmptyObject
              [] OTHER -> got = StrValue(text)

\* C21 witness: a json row holding a malformed document has been decoded to
\* the empty object.
C21_Witness ==
    /\ resp.op = "setting.get_value"
    /\ Val(resp.row).value_type = "json"
    /\ Val(resp.row).value = Some(<<"{">>)
    /\ resp.value = Some(EmptyObject)

\* A value of the Python type that a value_type stores.
TypeAdmits(value_type, value) ==
    CASE value_type = "string" -> value.kind = "str"
      [] value_type = "int"    -> value.kind = "int"
      [] value_type = "bool"   -> value.kind = "bool"
      [] value_type = "json"   -> TRUE
      [] OTHER                 -> FALSE

\* C22: SiteSettings.set_value(key, value, value_type) is an upsert: after the
\* call no key has two rows, and when the key was absent or stored with that
\* value_type and the value is of that type, the call succeeds and
\* get_value(key, d) then returns the value.
C22_SetValueUpsertRoundTrip ==
    [][ \A key \in SettingKeys, value \in PythonValues, value_type \in ValueTypes :
          (resp'.op = "set_value" /\ Len(resp'.args) = 3
              /\ resp'.args = <<key, value, value_type>>) =>
            LET before == {row \in site_settings : row.key = key}
            IN  /\ \A k \in SettingKeys :
                      Cardinality({row \in site_settings' : row.key = k}) <= 1
                /\ ( /\ \A row \in before : row.value_type = value_type
                     /\ TypeAdmits(value_type, value) )
                      => /\ resp'.result = ""
                         /\ \E row \in site_settings' : row.key = key
                         /\ get_value(key, StrValue(<<"d">>))' = value ]_vars

\* C30: SiteSettings.set_value(key, value, value_type) on a key that has a row
\* leaves the row's value_type as it was, stores the value serialized by that
\* stored type, and get_value(key) then decodes it by the stored type.
C30_SetValueKeepsStoredType ==
    [][ \A key \in SettingKeys, value \in PythonValues, value_type \in ValueTypes :
          (resp'.op = "set_value" /\ Len(resp'.args) = 3
              /\ resp'.args = <<key, value, value_type>>) =>
            LET before == {row \in site_settings : row.key = key}
                after == {row \in site_settings' : row.key = key}
            IN  before # {} =>
                    LET stored == CHOOSE row \in before : TRUE
                    IN  /\ \A row \in after : row.value_type = stored.value_type
                        /\ after = {set_value_instance(stored, value)}
                        /\ get_value(key, NoneValue)' =
                               DecodeSetting(set_value_instance(stored, value)) ]_vars

-----------------------------------------------------------------------------
(* Claims on deletion *)

\* Every website's category_id is the id of a stored category.
ReferentialIntegrity == \A w \in WebsiteIds : websites[w].category_id \in CategoryIds

\* C23: deleting a category deletes exactly the websites of that category,
\* leaving every other website as it was, and in every state each website's
\* category_id refers to an existing category.
C23_CascadeDelete ==
    /\ []ReferentialIntegrity
    /\ [][ resp'.op = "delete_category" =>
              /\ DOMAIN websites' = {w \in WebsiteIds : websites[w].category_id # resp'.id}
              /\ \A w \in DOMAIN websites' : websites'[w] = websites[w]
              /\ resp'.id \notin DOMAIN categories' ]_vars

\* C23 witness: category 1 held both websites and has been deleted, with them;
\* category 2 remains.
C23_Witness ==
    /\ resp.op = "delete_category"
    /\ resp.id = 1
    /\ CategoryIds = {2}
    /\ WebsiteIds = {}

-----------------------------------------------------------------------------
(* Claims on registration *)

\* C24: no two stored users share a username or an email, whatever
\* registration requests were served, one after another or at the same time.
C24_UsersUnique ==
    \A u, v \in DOMAIN users :
        u # v => /\ users[u].username # users[v].username
                 /\ users[u].email # users[v].email

\* C24 witness: two requests with the same username were in flight at the same
\* time; one was registered and the other ended in the 500 handler.
C24_Witness ==
    \E p, q \in Workers :
        /\ reg[p].pc = "done" /\ reg[p].outcome = "registered"
        /\ reg[q].pc = "done" /\ reg[q].outcome = "error500"
        /\ reg[p].use_called = FALSE /\ reg[q].use_called = FALSE
        /\ Cardinality({u \in DOMAIN users : users[u].username = "carol"}) = 1
        /\ Len(users) = Len(InitUsers) + 1

\* C26: the commit of a registration request is all or nothing: the stored
\* invitation codes change in it only if the user is created in it, and when a
\* user is created with an invitation code, that code is stored as used in the
\* same step.
C26_RegistrationAtomic ==
    [][ \A p \in Workers :
          (reg[p].pc = "validated" /\ reg'[p].pc = "done") =>
              /\ invitation_codes' # invitation_codes => users' # users
              /\ (users' # users /\ reg[p].inv # None)
                    => invitation_codes'[Val(reg[p].inv).id].is_used
              /\ reg'[p].outcome # "registered"
                    => (users' = users /\ invitation_codes' = invitation_codes) ]_vars

\* C26 witness: a request with an invitation code called use() with success
\* and then failed in the commit; the code is stored unused, and the only new
\* user is the one of the other request.
C26_Witness ==
    \E q \in Workers :
        /\ reg[q].pc = "done" /\ reg[q].outcome = "error500"
        /\ reg[q].use_called /\ reg[q].use_ok
        /\ \A i \in DOMAIN invitation_codes : ~invitation_codes[i].is_used
        /\ Len(users) = Len(InitUsers) + 1

\* C27: a call of use() on a code that is used or expired raises and leaves
\* the stored code as it was, is_used, used_at and used_by_id included; and a
\* registration request rejected for an invalid or unknown invitation code
\* creates no user and changes no code.
C27_FailedUseChangesNothing ==
    [][ /\ \A i \in DOMAIN invitation_codes :
              IsUseCall(i) =>
                  /\ (invitation_codes[i].is_used \/ Expired(i)) => ~resp'.valid
                  /\ ~resp'.valid => invitation_codes'[i] = invitation_codes[i]
        /\ \A p \in Workers :
              (reg[p].pc = "idle" /\ reg'[p].outcome = "invalid_code") =>
                  (users' = users /\ invitation_codes' = invitation_codes) ]_vars

\* C27 witness: use() has just been refused on a code that user 3 had used at
\* time 0, the row still says so at a later time, and a registration request
\* stands rejected for its invitation code with no user created.
C27_Witness ==
    /\ resp.op = "use" /\ ~resp.valid
    /\ now > 0
    /\ invitation_codes[resp.id].is_used
    /\ invitation_codes[resp.id].used_at = Some(0)
    /\ invitation_codes[resp.id].used_by_id = Some(3)
    /\ \E p \in Workers : reg[p].pc = "done" /\ reg[p].outcome = "invalid_code"
    /\ users = InitUsers

\* The stored registration_enabled rows, decoded.
RegistrationEnabledStored ==
    {DecodeSetting(row) : row \in {r \in site_settings : r.key = "registration_enabled"}}

\* C29: registration is gated by registration_enabled.  Stored as false: no
\* registration request has created a user or changed an invitation code.
\* Unset or stored as true: a request of an anonymous requester with a
\* username and an email that are free and no invitation code passes the
\* checks, which is the only way to the creation of its user.
C29_RegistrationGated ==
    /\ BoolValue(FALSE) \in RegistrationEnabledStored =>
          /\ users = InitUsers
          /\ \A i \in DOMAIN invitation_codes : ~invitation_codes[i].is_used
    /\ RegistrationEnabledStored \subseteq {BoolValue(TRUE)} =>
          \A p \in Workers, username \in FormUsernames, email \in FormEmails :
              ( /\ reg[p].pc = "idle" /\ clk[p].pc = "idle"
                /\ ~UsernameTaken(username) /\ ~EmailTaken(email) )
                 => ENABLED ( /\ RegValidate(p, None, username, email, "")
                              /\ reg'[p].pc = "validated" )

-----------------------------------------------------------------------------
(* Claims on administration *)

\* C25: a user's is_active changes only by a toggle-status request for that
\* user whose requester is authenticated, with role admin or superadmin; a
\* request of an anonymous or plain-user requester leaves every is_active as
\* it was.
C25_ToggleRoleGated ==
    [][ /\ \A u \in DOMAIN users :
              users'[u].is_active # users[u].is_active =>
                  /\ resp'.op = "toggle_user_status"
                  /\ resp'.id = u
                  /\ resp'.requester # None
                  /\ users[Val(resp'.requester)].is_active
                  /\ users[Val(resp'.requester)].role \in {"admin", "superadmin"}
        /\ ( /\ resp'.op = "toggle_user_status"
             /\ \/ resp'.requester = None
                \/ users[Val(resp'.requester)].role = "user" )
              => users' = users ]_vars

\* C25 witness: the plain user 3 asked to toggle user 4 and was redirected,
\* after the admin 2 had deactivated user 4.
C25_Witness ==
    /\ resp.op = "toggle_user_status"
    /\ resp.requester = Some(3)
    /\ resp.id = 4
    /\ resp.status = 302
    /\ ~users[4].is_active
    /\ users[3].is_active

=============================================================================
